---- MODULE Spec2Model ----
(***************************************************************************)
(* Model of better-qdrant-mcp-server: the Ollama embedding batch protocol  *)
(* (services/embeddings/ollama.ts), the Qdrant store client and its        *)
(* transport-security policy (services/qdrant.ts) and the tool handlers of *)
(* the server (index.ts).                                                  *)
(*                                                                         *)
(* Texts are sequences of character codes (naturals).  An embedding is     *)
(* abstracted to the prompt it was computed from and its length.           *)
(***************************************************************************)
EXTENDS Integers, Sequences, FiniteSets, TLC

\* ------------------------------------------------------------------ bounds
MaxTexts == 11          \* longest input of a direct generateEmbeddings call
NumOps == 2             \* tool calls the server handles concurrently

\* ------------------------------------------------------- program constants
concurrencyLimit == 5   \* ollama.ts:16
vectorSize == 768       \* ollama.ts:8
DefaultModel == "nomic-embed-text"   \* ollama.ts:11

Ops == 1..NumOps

VARIABLES
  texts,              \* texts[c]: argument of generateEmbeddings call c
  model,              \* model[c]: this.model of the provider instance of call c
  idx,                \* idx[c]: loop variable i
  epc,                \* epc[c]: position of call c in generateEmbeddings
  promise,            \* promise[c][k]: promise of the request for texts[k]
  embeddingPromises,  \* embeddingPromises[c]: request positions, in push order
  batchAll,           \* batchAll[c]: state of Promise.all(batchPromises)
  outOfOrder,         \* outOfOrder[c]: a request settled before an earlier one
  result,             \* result[c]: value the call resolved with
  callError,          \* callError[c]: error the call rejected with
  qdrant,             \* the createQdrantService call: arguments, position, outcome
  storeCall,          \* the DefaultQdrantService method call: position, outcome
  env,                \* process.env as read by config.ts
  appConfig,          \* the configuration loaded at process start
  textProcessor,      \* this.textProcessor: chunkSize and chunkOverlap
  store,              \* the collections of the Qdrant server
  uuid,               \* number of ids uuidv4() has handed out
  scenario,           \* the tool calls clients send and the handlers serving them
  served,             \* number of tool calls received so far
  request,            \* request[o]: the tool call handler o is serving
  pc,                 \* pc[o]: position of handler o
  lcl,                \* lcl[o]: local variables of handler o
  oplog,              \* oplog[o]: calls handler o has made for its request
  response            \* response[o]: the tool response of handler o

embedVars == <<texts, model, idx, epc, promise, embeddingPromises, batchAll,
               outOfOrder, result, callError>>

serverVars == <<env, appConfig, textProcessor, store, uuid, scenario,
                served, request, pc, lcl, oplog, response>>

clientVars == <<qdrant, storeCall>>

vars == <<embedVars, clientVars, serverVars>>

\* ------------------------------------------------------------------ helpers
Min(a, b) == IF a < b THEN a ELSE b

Range(s) == {s[k] : k \in DOMAIN s}

\* Array.prototype.slice(from, to): 0-based, end exclusive, clamped to length.
SliceNoOffset(s, from, to) == SubSeq(s, 1, Min(to, Len(s)) - from)
Slice(s, from, to) == SubSeq(s, from + 1, Min(to, Len(s)))

\* ------------------------------------------------- the embedding endpoint
NoText == <<>>
NoError == "none"
NoEmbedding == [of |-> NoText, len |-> 0]

\* Length of the vectors a model produces (nomic-embed-text: 768).
ModelDim(m) == IF m = "nomic-embed-text" THEN 768 ELSE 384

\* The bodies and statuses POST /api/embeddings can answer with.  The field
\* embedding of a body is "array", "undefined" (missing) or "string".
Responses ==
  { [status |-> 200, embedding |-> "array"],
    [status |-> 200, embedding |-> "undefined"],
    [status |-> 200, embedding |-> "string"],
    [status |-> 500, embedding |-> "undefined"] }

\* No answer received (yet).
NoReply == [status |-> 0, embedding |-> "undefined"]

Unissued ==
  [st |-> "unissued", prompt |-> NoText, val |-> NoEmbedding, err |-> NoError,
   resp |-> NoReply]
Pending(text) ==
  [st |-> "pending", prompt |-> text, val |-> NoEmbedding, err |-> NoError,
   resp |-> NoReply]

\* A callback that returns response.data.embedding without looking at it.
RequestOutcomeUnchecked(p, m, resp) ==
  IF resp.status \notin 200..299
    THEN [p EXCEPT !.st = "rejected", !.err = "AxiosError", !.resp = resp]
  ELSE [p EXCEPT !.st = "fulfilled", !.resp = resp,
                 !.val = [of |-> p.prompt,
                          len |-> IF resp.embedding = "array" THEN ModelDim(m) ELSE 0]]

\* The body of the async callback of batch.map after axios.post settles:
\* axios rejects on a non-2xx status; a body without an array embedding
\* throws McpError(InternalError); otherwise the embedding is the value.
RequestOutcome(p, m, resp) ==
  IF resp.status \notin 200..299
    THEN [p EXCEPT !.st = "rejected", !.err = "AxiosError", !.resp = resp]
  ELSE IF resp.embedding = "undefined" \/ resp.embedding # "array"
    THEN [p EXCEPT !.st = "rejected", !.resp = resp,
                   !.err = "McpError.InternalError: Invalid response from Ollama API"]
  ELSE [p EXCEPT !.st = "fulfilled", !.resp = resp,
                 !.val = [of |-> p.prompt, len |-> ModelDim(m)]]

\* ------------------------------------------------------------ Promise.all
AllPending == [st |-> "pending", err |-> NoError]

\* Promise.any-like: resolves as soon as one member is fulfilled.
PromiseAllStepAny(all, settled, members) ==
  IF all.st # "pending" THEN all
  ELSE IF settled.st = "fulfilled" THEN [st |-> "fulfilled", err |-> NoError]
  ELSE all

\* Promise.allSettled-like: waits for every member and never rejects.
PromiseAllStepSettled(all, settled, members) ==
  IF all.st # "pending" THEN all
  ELSE IF \A k \in DOMAIN members : members[k].st \in {"fulfilled", "rejected"}
    THEN [st |-> "fulfilled", err |-> NoError]
  ELSE all

\* State of Promise.all(members) after one member has settled: it rejects
\* with the first rejection and fulfils once every member is fulfilled.
PromiseAllStep(all, settled, members) ==
  IF all.st # "pending" THEN all
  ELSE IF settled.st = "rejected" THEN [st |-> "rejected", err |-> settled.err]
  ELSE IF \A k \in DOMAIN members : members[k].st = "fulfilled"
    THEN [st |-> "fulfilled", err |-> NoError]
  ELSE all

\* Promise.any over settled members: rejects when none is fulfilled.
PromiseAnySettledMembers(members) ==
  IF \E k \in DOMAIN members : members[k].st = "fulfilled"
    THEN [st |-> "fulfilled", err |-> NoError,
          values |-> [k \in DOMAIN members |-> members[k].val]]
  ELSE [st |-> "rejected", err |-> "AggregateError", values |-> <<>>]

\* Promise.all over members that are all settled already (line 44).
PromiseAllSettledMembers(members) ==
  IF \E k \in DOMAIN members : members[k].st = "rejected"
    THEN LET k == CHOOSE j \in DOMAIN members :
                    /\ members[j].st = "rejected"
                    /\ \A h \in DOMAIN members : members[h].st = "rejected" => j <= h
         IN [st |-> "rejected", err |-> members[k].err, values |-> <<>>]
  ELSE [st |-> "fulfilled", err |-> NoError,
        values |-> [k \in DOMAIN members |-> members[k].val]]

\* ------------------------------------------------------ generateEmbeddings
\* Positions (1-based) of the batch the loop is at.
CurrentBatch(c) == (idx[c] + 1)..Min(idx[c] + concurrencyLimit, Len(texts[c]))

BatchMembers(ps, c) == [j \in 1..Cardinality(CurrentBatch(c)) |-> ps[idx[c] + j]]

CallStart(c, ts, m) ==
  /\ texts' = [texts EXCEPT ![c] = ts]
  /\ model' = [model EXCEPT ![c] = m]
  /\ idx' = [idx EXCEPT ![c] = 0]
  /\ epc' = [epc EXCEPT ![c] = "loop"]
  /\ promise' = [promise EXCEPT ![c] = [k \in 1..Len(ts) |-> Unissued]]
  /\ embeddingPromises' = [embeddingPromises EXCEPT ![c] = <<>>]
  /\ batchAll' = [batchAll EXCEPT ![c] = AllPending]
  /\ outOfOrder' = [outOfOrder EXCEPT ![c] = FALSE]
  /\ result' = [result EXCEPT ![c] = <<>>]
  /\ callError' = [callError EXCEPT ![c] = NoError]

\* Lines 19-41: one loop iteration up to the await.
IssueBatch(c) ==
  /\ epc[c] = "loop"
  /\ idx[c] < Len(texts[c])
  /\ LET batch == Slice(texts[c], idx[c], idx[c] + concurrencyLimit)
     IN /\ promise' = [promise EXCEPT ![c] =
                 [k \in DOMAIN promise[c] |->
                    IF k \in (idx[c] + 1)..(idx[c] + Len(batch))
                      THEN Pending(batch[k - idx[c]])
                      ELSE promise[c][k]]]
        /\ embeddingPromises' = [embeddingPromises EXCEPT ![c] =
                 @ \o [j \in 1..Len(batch) |-> idx[c] + j]]
        /\ batchAll' = [batchAll EXCEPT ![c] =
                 IF Len(batch) = 0 THEN [st |-> "fulfilled", err |-> NoError]
                 ELSE AllPending]
  /\ epc' = [epc EXCEPT ![c] = "awaitBatch"]
  /\ UNCHANGED <<texts, model, idx, outOfOrder, result, callError>>

\* A request issued by call c settles with answer resp.
Settle(c, k, resp) ==
  /\ k \in DOMAIN promise[c]
  /\ promise[c][k].st = "pending"
  /\ LET p == RequestOutcome(promise[c][k], model[c], resp)
         ps == [promise[c] EXCEPT ![k] = p]
     IN /\ promise' = [promise EXCEPT ![c] = ps]
        /\ batchAll' = [batchAll EXCEPT ![c] =
                 IF k \in CurrentBatch(c)
                   THEN PromiseAllStep(@, p, BatchMembers(ps, c))
                   ELSE @]
  /\ outOfOrder' = [outOfOrder EXCEPT ![c] =
           @ \/ \E j \in 1..(k - 1) : promise[c][j].st = "pending"]
  /\ UNCHANGED <<texts, model, idx, epc, embeddingPromises, result, callError>>

\* A loop that steps by twice the limit.
AwaitBatchDoneSkip(c) ==
  /\ epc[c] = "awaitBatch"
  /\ batchAll[c].st = "fulfilled"
  /\ idx' = [idx EXCEPT ![c] = @ + 2 * concurrencyLimit]
  /\ epc' = [epc EXCEPT ![c] = "loop"]
  /\ UNCHANGED <<texts, model, promise, embeddingPromises, batchAll, outOfOrder,
                 result, callError>>

\* A loop that does not wait for the batch: it goes on while requests of
\* the batch are pending.
AwaitBatchDoneEarly(c) ==
  /\ epc[c] = "awaitBatch"
  /\ batchAll[c].st # "rejected"
  /\ idx' = [idx EXCEPT ![c] = @ + concurrencyLimit]
  /\ epc' = [epc EXCEPT ![c] = "loop"]
  /\ UNCHANGED <<texts, model, promise, embeddingPromises, batchAll, outOfOrder,
                 result, callError>>

\* Line 41: the await resumes, the batch is complete.
AwaitBatchDone(c) ==
  /\ epc[c] = "awaitBatch"
  /\ batchAll[c].st = "fulfilled"
  /\ idx' = [idx EXCEPT ![c] = @ + concurrencyLimit]
  /\ epc' = [epc EXCEPT ![c] = "loop"]
  /\ UNCHANGED <<texts, model, promise, embeddingPromises, batchAll, outOfOrder,
                 result, callError>>

\* Line 41: the await throws, the call rejects.
AwaitBatchThrow(c) ==
  /\ epc[c] = "awaitBatch"
  /\ batchAll[c].st = "rejected"
  /\ epc' = [epc EXCEPT ![c] = "failed"]
  /\ callError' = [callError EXCEPT ![c] = batchAll[c].err]
  /\ UNCHANGED <<texts, model, idx, promise, embeddingPromises, batchAll, outOfOrder,
                 result>>

\* Line 44: the loop is over, return Promise.all(embeddingPromises).
ReturnAll(c) ==
  /\ epc[c] = "loop"
  /\ idx[c] >= Len(texts[c])
  /\ LET all == PromiseAllSettledMembers(
                  [j \in 1..Len(embeddingPromises[c]) |-> promise[c][embeddingPromises[c][j]]])
     IN IF all.st = "fulfilled"
          THEN /\ epc' = [epc EXCEPT ![c] = "returned"]
               /\ result' = [result EXCEPT ![c] = all.values]
               /\ UNCHANGED callError
          ELSE /\ epc' = [epc EXCEPT ![c] = "failed"]
               /\ callError' = [callError EXCEPT ![c] = all.err]
               /\ UNCHANGED result
  /\ UNCHANGED <<texts, model, idx, promise, embeddingPromises, batchAll, outOfOrder>>

EmbedIdle ==
  /\ texts = [c \in Ops |-> <<>>]
  /\ model = [c \in Ops |-> DefaultModel]
  /\ idx = [c \in Ops |-> 0]
  /\ epc = [c \in Ops |-> "idle"]
  /\ promise = [c \in Ops |-> <<>>]
  /\ embeddingPromises = [c \in Ops |-> <<>>]
  /\ batchAll = [c \in Ops |-> AllPending]
  /\ outOfOrder = [c \in Ops |-> FALSE]
  /\ result = [c \in Ops |-> <<>>]
  /\ callError = [c \in Ops |-> NoError]

\* ------------------------------------------------------ createQdrantService
\* A URL string is given by its parts as written; new URL() lower-cases the
\* scheme and the host name.
ToLowerCase(t) ==
  CASE t = "HTTP" -> "http"
    [] t = "HTTPS" -> "https"
    [] t = "LOCALHOST" -> "localhost"
    [] t = "Host.Container.Internal" -> "host.container.internal"
    [] OTHER -> t

UrlSchemes == {"http", "https", "HTTP", "HTTPS", "ws"}
UrlHosts == {"localhost", "LOCALHOST", "127.0.0.1", "host.container.internal",
             "Host.Container.Internal", "host.docker.internal", "remote-qdrant",
             "127.0.0.2", "[::1]", "localhost.example.com"}
UrlPorts == {"", "6333"}
UrlPaths == {"", "/", "/prefix"}

UrlStrings == [scheme : UrlSchemes, host : UrlHosts, port : UrlPorts, path : UrlPaths]

\* An optional string argument: undefined, or a string (possibly empty).
Undefined == [def |-> FALSE, s |-> ""]
Str(t) == [def |-> TRUE, s |-> t]
Truthy(v) == v.def /\ v.s # ""

ApiKeys == {Undefined, Str(""), Str("test-api-key")}

\* new URL(url): protocol, hostname, port and pathname of the parsed URL.
ParseUrl(u) ==
  [protocol |-> ToLowerCase(u.scheme) \o ":",
   hostname |-> ToLowerCase(u.host),
   port |-> u.port,
   pathname |-> IF u.path = "" THEN "/" ELSE u.path]

\* Line 248.
IsLocalhost(urlObj) ==
  \/ urlObj.hostname = "localhost"
  \/ urlObj.hostname = "127.0.0.1"
  \/ urlObj.hostname = "host.container.internal"

IsHttpsNoColon(urlObj) == urlObj.protocol = "https"
IsHttps(urlObj) == urlObj.protocol = "https:"

NoClientConfig == [host |-> "", apiKey |-> Undefined, https |-> FALSE,
                   port |-> "", prefix |-> ""]

\* Lines 264-280.
ClientConfig(urlObj, apiKey) ==
  [host |-> urlObj.hostname,
   apiKey |-> apiKey,
   https |-> IsHttps(urlObj),
   port |-> urlObj.port,
   prefix |-> IF urlObj.pathname # "/" /\ urlObj.pathname # "" THEN urlObj.pathname ELSE ""]

QdrantCall(u, key) ==
  [pc |-> "called", url |-> u, apiKey |-> key, log |-> "none",
   error |-> NoError, client |-> NoClientConfig]

\* The service the server runs with (config.ts:23): http://localhost:6333,
\* no credential.
QdrantDefault ==
  [pc |-> "created",
   url |-> [scheme |-> "http", host |-> "localhost", port |-> "6333", path |-> ""],
   apiKey |-> Undefined, log |-> "none", error |-> NoError,
   client |-> ClientConfig(ParseUrl([scheme |-> "http", host |-> "localhost",
                                     port |-> "6333", path |-> ""]), Undefined)]

\* Lines 242-288: the whole function.
CreateQdrantService ==
  /\ qdrant.pc = "called"
  /\ LET urlObj == ParseUrl(qdrant.url)
         isLocalhost == IsLocalhost(urlObj)
     IN IF Truthy(qdrant.apiKey) /\ ~IsHttps(urlObj) /\ ~isLocalhost
          THEN qdrant' = [qdrant EXCEPT
                 !.pc = "threw",
                 !.log = "error",
                 !.error = "Insecure Qdrant API key usage detected for non-local connection. Server will not start."]
          ELSE qdrant' = [qdrant EXCEPT
                 !.pc = "created",
                 !.log = IF Truthy(qdrant.apiKey) /\ ~IsHttps(urlObj) THEN "warn" ELSE "none",
                 !.client = ClientConfig(urlObj, qdrant.apiKey)]

\* A caller discards the outcome and calls again with other arguments.
CallCreateQdrantService ==
  /\ qdrant.pc \in {"created", "threw"}
  /\ \E u \in UrlStrings, key \in ApiKeys : qdrant' = QdrantCall(u, key)


\* ---------------------------------------------------- DefaultQdrantService
MaxResults == 2         \* longest result list a search answer carries

StoreOps == {"listCollections", "createCollection", "addDocuments", "search",
             "deleteCollection"}

\* The field vector of a result in the answer of the store: missing, null,
\* an object (named vectors) or an array whose elements have the given types.
AbsentVector == [kind |-> "undefined", elems |-> <<>>]

StoredVectors ==
  { AbsentVector,
    [kind |-> "null", elems |-> <<>>],
    [kind |-> "object", elems |-> <<>>],
    [kind |-> "array", elems |-> <<>>],
    [kind |-> "array", elems |-> <<"number", "number">>],
    [kind |-> "array", elems |-> <<"number", "string">>] }

\* Result k of an answer: its id and score are fixed by its position.
StoredResults(k) ==
  { [id |-> k, score |-> 10 - k, payload |-> p, vector |-> v] :
      p \in {"text", "other"}, v \in StoredVectors }

RECURSIVE ResultLists(_)
ResultLists(n) ==
  IF n = 0 THEN { <<>> }
  ELSE ResultLists(n - 1)
         \cup { Append(rs, r) : rs \in {l \in ResultLists(n - 1) : Len(l) = n - 1},
                                r \in StoredResults(n) }

\* What fetch() settles with: a rejection (no response), or a response with
\* a status and a body; json() rejects on a body that is not JSON.
FetchFailed == [received |-> FALSE, status |-> 0, json |-> FALSE, data |-> <<>>]

HttpStatuses == {200, 201, 299, 300, 199, 400, 401, 404, 409, 500}

JsonBodies(op) ==
  CASE op = "listCollections" -> { <<>>, <<"col1">>, <<"col1", "col2">> }
    [] op = "search" -> ResultLists(MaxResults)
    [] OTHER -> { <<>> }

FetchOutcomes(op) ==
  {FetchFailed}
    \cup [received : {TRUE}, status : HttpStatuses, json : {TRUE}, data : JsonBodies(op)]
    \cup [received : {TRUE}, status : HttpStatuses, json : {FALSE}, data : { <<>> }]

\* response.ok of the fetch API.
ResponseOkBelow500(status) == status < 500
ResponseOk(status) == status \in 200..299

NoServiceError == [name |-> "", message |-> "", status |-> 0]

\* new Error(`HTTP error! Status: ${response.status}`).
HttpStatusError(status) ==
  [name |-> "Error", message |-> "HTTP error! Status: ", status |-> status]

\* Array.isArray(v) alone.
IsArray(v) == v.kind = "array"
\* Line 225: Array.isArray(v) && v.every(e => typeof e === 'number').
IsNumberArray(v) ==
  v.kind = "array" /\ \A k \in DOMAIN v.elems : v.elems[k] = "number"

\* Lines 217-230: the SearchResult of one result of the answer.  A field
\* that is not set is the undefined one.
MapResult(r) ==
  [id |-> r.id, score |-> r.score, payload |-> r.payload,
   vector |-> IF IsNumberArray(r.vector) THEN r.vector ELSE AbsentVector]

StoreIdle ==
  [op |-> "none", pc |-> "idle", requests |-> 0, response |-> FetchFailed,
   result |-> <<>>, hasResult |-> FALSE, error |-> NoServiceError]

\* A method of the service is called: it runs up to its await fetch(...).
ServiceCall(op) ==
  /\ storeCall.pc \in {"idle", "returned", "threw"}
  /\ storeCall' = [StoreIdle EXCEPT !.op = op, !.pc = "fetching", !.requests = 1]

\* fetch settles; the rest of the method runs (lines 32-51, 78-91, 124-137,
\* 158-171, 202-238).
ServiceSettle(r) ==
  /\ storeCall.pc = "fetching"
  /\ r \in FetchOutcomes(storeCall.op)
  /\ storeCall' =
       IF ~r.received
         THEN [storeCall EXCEPT !.pc = "threw", !.response = r,
                 !.error = [name |-> "TypeError", message |-> "fetch failed", status |-> 0]]
       ELSE IF ~ResponseOk(r.status)
         THEN [storeCall EXCEPT !.pc = "threw", !.response = r,
                 !.error = HttpStatusError(r.status)]
       ELSE IF ~r.json
         THEN [storeCall EXCEPT !.pc = "threw", !.response = r,
                 !.error = [name |-> "SyntaxError", message |-> "Unexpected token", status |-> 0]]
       ELSE [storeCall EXCEPT !.pc = "returned", !.response = r, !.hasResult = TRUE,
               !.result =
                  CASE storeCall.op = "listCollections" -> r.data
                    [] storeCall.op = "search" -> [k \in DOMAIN r.data |-> MapResult(r.data[k])]
                    [] OTHER -> <<>>]

\* ------------------------------------------------------------- config.ts
\* Lines 22-36: fields of appConfig this model uses.  MCP_UPLOAD_DIR is
\* unset, the upload directory is the default one.
DefaultUploadDir == <<"/", "u">>
DefaultProvider == "ollama"

LoadConfig(e) ==
  [mcpUploadDir |-> DefaultUploadDir,
   embeddingProvider |-> IF Truthy(e.EMBEDDING_PROVIDER)
                           THEN e.EMBEDDING_PROVIDER.s ELSE DefaultProvider,
   embeddingModel |-> e.EMBEDDING_MODEL,
   openaiApiKey |-> e.OPENAI_API_KEY,
   ollamaEndpoint |-> "http://localhost:11434"]

\* ------------------------------------------------------------------ paths
\* A path is a sequence of characters.
RECURSIVE SplitPath(_)
SplitPath(s) ==
  IF s = <<>> THEN << <<>> >>
  ELSE LET rest == SplitPath(Tail(s))
       IN IF Head(s) = "/" THEN << <<>> >> \o rest
          ELSE << <<Head(s)>> \o Head(rest) >> \o Tail(rest)

RECURSIVE NormalizeSegments(_, _)
NormalizeSegments(segs, acc) ==
  IF segs = <<>> THEN acc
  ELSE LET h == Head(segs)
       IN NormalizeSegments(Tail(segs),
            IF h = <<>> \/ h = <<".">> THEN acc
            ELSE IF h = <<".", ".">>
              THEN (IF acc = <<>> THEN acc ELSE SubSeq(acc, 1, Len(acc) - 1))
            ELSE Append(acc, h))

RECURSIVE JoinSegments(_)
JoinSegments(segs) ==
  IF segs = <<>> THEN <<>> ELSE <<"/">> \o Head(segs) \o JoinSegments(Tail(segs))

\* path.resolve(base, p) for an absolute base.
PathResolve(base, p) ==
  LET segs == IF p # <<>> /\ Head(p) = "/"
                THEN NormalizeSegments(SplitPath(p), <<>>)
                ELSE NormalizeSegments(SplitPath(base) \o SplitPath(p), <<>>)
  IN IF segs = <<>> THEN <<"/">> ELSE JoinSegments(segs)

\* String.prototype.startsWith.
StartsWith(t, prefix) ==
  Len(t) >= Len(prefix) /\ SubSeq(t, 1, Len(prefix)) = prefix

\* Lines 75-84.
SanitizeFilePath(unsafePath, base) ==
  LET resolvedPath == PathResolve(base, unsafePath)
  IN IF ~StartsWith(resolvedPath, base)
       THEN [err |-> "File path attempts to access forbidden directory.", path |-> <<>>]
       ELSE [err |-> NoError, path |-> resolvedPath]

\* ----------------------------------------------------------- TextProcessor
DefaultChunkSize == 3
DefaultChunkOverlap == 1

UndefinedNum == [def |-> FALSE, n |-> 0]
Num(n) == [def |-> TRUE, n |-> n]
TruthyNum(v) == v.def /\ v.n # 0

SetChunkSize(tp, n) ==
  IF n <= 0 THEN [err |-> "Chunk size must be positive", tp |-> tp]
  ELSE [err |-> NoError, tp |-> [tp EXCEPT !.chunkSize = n]]

SetChunkOverlap(tp, n) ==
  IF n < 0 \/ n >= tp.chunkSize
    THEN [err |-> "Chunk overlap must be smaller than chunk size", tp |-> tp]
  ELSE [err |-> NoError, tp |-> [tp EXCEPT !.chunkOverlap = n]]

RECURSIVE Windows(_, _, _, _)
Windows(len, start, size, overlap) ==
  IF start >= len THEN <<>>
  ELSE LET end == Min(start + size, len)
       IN << [start |-> start, end |-> end] >>
            \o (IF end >= len THEN <<>>
                ELSE Windows(len, start + size - overlap, size, overlap))

ProcessFile(content, tp) ==
  LET ws == Windows(Len(content), 0, tp.chunkSize, tp.chunkOverlap)
  IN [k \in 1..Len(ws) |->
        [text |-> SubSeq(content, ws[k].start + 1, ws[k].end), index |-> k - 1]]

\* ------------------------------------------------ createEmbeddingService
AllowedEmbeddingServices == {"openai", "openrouter", "fastembed", "ollama"}

HostedVectorSize == 1536

\* The provider instance, or the error its construction throws.
CreateEmbeddingService(type, cfg) ==
  IF type = "ollama"
    THEN [err |-> NoError, type |-> type, vectorSize |-> vectorSize,
          model |-> IF Truthy(cfg.embeddingModel) THEN cfg.embeddingModel.s
                    ELSE DefaultModel]
  ELSE IF type \in {"openai", "openrouter"} /\ ~Truthy(cfg.openaiApiKey)
    THEN [err |-> "API key is required", type |-> type, vectorSize |-> 0, model |-> ""]
  ELSE [err |-> NoError, type |-> type, vectorSize |-> HostedVectorSize,
        model |-> IF Truthy(cfg.embeddingModel) THEN cfg.embeddingModel.s
                  ELSE "text-embedding-3-small"]

\* Lines 287-300 and 351-364: the provider the handler works with.
\* a || b on an always-defined string a and an optional string b.
ResolveProvider(cfg, requested) ==
  IF cfg.embeddingProvider # "" THEN Str(cfg.embeddingProvider) ELSE requested

ProviderFor(cfg, requested) ==
  LET embeddingServiceType == ResolveProvider(cfg, requested)
  IN IF ~Truthy(embeddingServiceType)
       THEN [err |-> "Embedding service not specified in config or arguments.",
             type |-> "", vectorSize |-> 0, model |-> "", constructed |-> FALSE]
     ELSE IF embeddingServiceType.s \notin AllowedEmbeddingServices
       THEN [err |-> "Unsupported embedding service",
             type |-> embeddingServiceType.s, vectorSize |-> 0, model |-> "",
             constructed |-> FALSE]
     ELSE LET svc == CreateEmbeddingService(embeddingServiceType.s, cfg)
          IN [err |-> svc.err, type |-> svc.type, vectorSize |-> svc.vectorSize,
              model |-> svc.model, constructed |-> TRUE]

\* ------------------------------------------------------------ tool calls
NoPath == <<>>

AddDocuments(filePath, collection, embeddingService, chunkSize, chunkOverlap) ==
  [tool |-> "add_documents", wellTyped |-> TRUE, filePath |-> filePath,
   collection |-> collection, embeddingService |-> embeddingService,
   chunkSize |-> chunkSize, chunkOverlap |-> chunkOverlap,
   query |-> NoText, limit |-> UndefinedNum]

Search(query, collection, embeddingService, limit) ==
  [tool |-> "search", wellTyped |-> TRUE, filePath |-> NoPath,
   collection |-> collection, embeddingService |-> embeddingService,
   chunkSize |-> UndefinedNum, chunkOverlap |-> UndefinedNum,
   query |-> query, limit |-> limit]

DeleteCollection(collection) ==
  [tool |-> "delete_collection", wellTyped |-> TRUE, filePath |-> NoPath,
   collection |-> collection, embeddingService |-> Undefined,
   chunkSize |-> UndefinedNum, chunkOverlap |-> UndefinedNum,
   query |-> NoText, limit |-> UndefinedNum]

ListCollections ==
  [tool |-> "list_collections", wellTyped |-> TRUE, filePath |-> NoPath,
   collection |-> "", embeddingService |-> Undefined,
   chunkSize |-> UndefinedNum, chunkOverlap |-> UndefinedNum,
   query |-> NoText, limit |-> UndefinedNum]

\* Arguments the type guards of lines 86-113 reject.
IllTyped(r) == [r EXCEPT !.wellTyped = FALSE]

NoRequest == [ListCollections EXCEPT !.tool = "none"]

\* ---------------------------------------------------------- tool responses
NoResponse ==
  [isError |-> FALSE, thrown |-> FALSE, text |-> "", n |-> 0, collection |-> "",
   blocks |-> <<>>, names |-> {}]

GenericMessage(tool) ==
  CASE tool = "list_collections" ->
         "Error listing collections. Please check server logs for details."
    [] tool = "add_documents" ->
         "Error adding documents. Please check server logs for details."
    [] tool = "search" ->
         "Error searching. Please check server logs for details."
    [] tool = "delete_collection" ->
         "Error deleting collection. Please check server logs for details."

\* A catch block that answers with the message of the error it caught.
CatchResponseWithMessage(tool, error) ==
  [NoResponse EXCEPT !.isError = TRUE, !.text = error]

\* The catch blocks of the four handlers (lines 249, 334, 405, 432).
CatchResponse(tool, error) ==
  [NoResponse EXCEPT !.isError = TRUE, !.text = GenericMessage(tool)]

NoLocals ==
  [path |-> NoPath, content |-> NoText, chunks |-> <<>>, provider |-> "",
   vectorSize |-> 0, embeddings |-> <<>>, collections |-> {}, points |-> <<>>,
   results |-> <<>>, caught |-> NoError, failedAt |-> "none"]

LogEntry(call, collection, size) == [call |-> call, collection |-> collection, size |-> size]

\* ------------------------------------------------------- the Qdrant server
CollectionNames == {"docs", "notes"}

NoCollection == [exists |-> FALSE, size |-> 0, points |-> {}]
EmptyCollection(size) == [exists |-> TRUE, size |-> size, points |-> {}]

ExistingCollections == {c \in CollectionNames : store[c].exists}

\* Status of a refused request.
HttpError(status) ==
  CASE status = 404 -> "HTTP error! Status: 404"
    [] status = 409 -> "HTTP error! Status: 409"
    [] OTHER -> "HTTP error! Status: 500"

\* ------------------------------------------------ what the clients send
MaxPathLen == 4         \* longest file path a client sends

PathChars == {"/", ".", "u", "e"}
FilePaths == UNION {[1..k -> PathChars] : k \in 0..MaxPathLen}

GoodPath == <<"f">>
OutsidePath == <<".", ".", "/", "e">>
Query == <<7>>

\* The tool calls of a scenario.
Requests(name) ==
  CASE name = "anyPath" ->
         {AddDocuments(f, "docs", Undefined, UndefinedNum, UndefinedNum) : f \in FilePaths}
    [] name = "anyTool" ->
         {AddDocuments(GoodPath, "docs", Undefined, UndefinedNum, UndefinedNum),
          AddDocuments(OutsidePath, "docs", Undefined, UndefinedNum, UndefinedNum),
          Search(Query, "docs", Undefined, UndefinedNum),
          IllTyped(Search(Query, "docs", Undefined, UndefinedNum)),
          DeleteCollection("docs"),
          ListCollections}
    [] name = "anyProvider" ->
         UNION { {AddDocuments(GoodPath, "docs", svc, UndefinedNum, UndefinedNum),
                  Search(Query, "notes", svc, UndefinedNum)} :
                 svc \in {Undefined, Str("ollama"), Str("openai")} }
    [] name = "anyChunking" ->
         {AddDocuments(GoodPath, "docs", Undefined, cs, co) :
            cs \in {UndefinedNum, Num(0), Num(-1), Num(2)},
            co \in {UndefinedNum, Num(0), Num(1), Num(7)}}
    [] name = "threeChunks" ->
         {AddDocuments(GoodPath, "docs", Undefined, Num(2), UndefinedNum),
          Search(Query, "notes", Undefined, UndefinedNum)}
    [] OTHER -> {}

\* ---------------------------------------------------------- the handlers
cfgVars == <<env, appConfig, scenario>>

\* A handler is free; a client sends it a tool call.
Receive(o) ==
  /\ o \in scenario.handlers
  /\ pc[o] \in {"idle", "done"}
  /\ \A k \in DOMAIN promise[o] : promise[o][k].st # "pending"
  /\ served < scenario.maxRequests
  /\ \E r \in Requests(scenario.requests) : request' = [request EXCEPT ![o] = r]
  /\ pc' = [pc EXCEPT ![o] = "received"]
  /\ lcl' = [lcl EXCEPT ![o] = NoLocals]
  /\ oplog' = [oplog EXCEPT ![o] = <<>>]
  /\ response' = [response EXCEPT ![o] = NoResponse]
  /\ served' = served + 1
  /\ UNCHANGED <<cfgVars, textProcessor, store, uuid, embedVars, clientVars>>

\* Lines 215-217, 220-222, 225-227: the type guard fails, McpError is thrown.
RejectArguments(o) ==
  /\ pc[o] = "received"
  /\ ~request[o].wellTyped
  /\ pc' = [pc EXCEPT ![o] = "done"]
  /\ response' = [response EXCEPT ![o] =
        [NoResponse EXCEPT !.thrown = TRUE, !.text = "Invalid arguments"]]
  /\ UNCHANGED <<cfgVars, textProcessor, store, uuid, served, request, lcl, oplog,
                 embedVars, clientVars>>

\* A catch block that runs the operation again from its first step.
CaughtRetry(o, error) ==
  /\ pc' = [pc EXCEPT ![o] = "received"]
  /\ lcl' = [lcl EXCEPT ![o].caught = error, ![o].failedAt = pc[o]]
  /\ response' = response

\* A catch block: the error is logged and the generic response returned.
Caught(o, error) ==
  /\ pc' = [pc EXCEPT ![o] = "done"]
  /\ lcl' = [lcl EXCEPT ![o].caught = error, ![o].failedAt = pc[o]]
  /\ response' = [response EXCEPT ![o] = CatchResponse(request[o].tool, error)]

\* Lines 263-278: configure the text processor, sanitize the path, call
\* readFile.
AddDocumentsBegin(o) ==
  /\ pc[o] = "received"
  /\ request[o].tool = "add_documents"
  /\ request[o].wellTyped
  /\ LET a == request[o]
         s1 == IF TruthyNum(a.chunkSize)
                 THEN SetChunkSize(textProcessor, a.chunkSize.n)
                 ELSE [err |-> NoError, tp |-> textProcessor]
         s2 == IF s1.err = NoError /\ TruthyNum(a.chunkOverlap)
                 THEN SetChunkOverlap(s1.tp, a.chunkOverlap.n)
                 ELSE s1
         san == SanitizeFilePath(a.filePath, appConfig.mcpUploadDir)
         error == IF s2.err # NoError THEN s2.err ELSE san.err
     IN /\ textProcessor' = s2.tp
        /\ IF error # NoError
             THEN Caught(o, error) /\ UNCHANGED oplog
             ELSE /\ pc' = [pc EXCEPT ![o] = "reading"]
                  /\ lcl' = [lcl EXCEPT ![o].path = san.path]
                  /\ oplog' = [oplog EXCEPT ![o] = Append(@, LogEntry("readFile", "", 0))]
                  /\ UNCHANGED response
  /\ UNCHANGED <<cfgVars, store, uuid, served, request, embedVars, clientVars>>

\* Lines 278-285: readFile settles; the content is handed to processFile.
ReadFileDone(o) ==
  /\ pc[o] = "reading"
  /\ \/ Caught(o, "Error reading file: ENOENT")
     \/ \E content \in scenario.files :
          /\ pc' = [pc EXCEPT ![o] = "chunking"]
          /\ lcl' = [lcl EXCEPT ![o].content = content,
                                ![o].chunks = ProcessFile(content, textProcessor)]
          /\ UNCHANGED response
  /\ UNCHANGED <<cfgVars, textProcessor, store, uuid, served, request, oplog,
                 embedVars, clientVars>>

\* Lines 287-305: resolve and construct the provider, call generateEmbeddings.
AddDocumentsEmbed(o) ==
  /\ pc[o] = "chunking"
  /\ LET prov == ProviderFor(appConfig, request[o].embeddingService)
     IN /\ oplog' = [oplog EXCEPT ![o] =
                IF prov.constructed
                  THEN Append(@, LogEntry("createEmbeddingService", prov.type, 0))
                  ELSE @]
        /\ IF prov.err # NoError
             THEN Caught(o, prov.err) /\ UNCHANGED embedVars
             ELSE /\ pc' = [pc EXCEPT ![o] = "embedding"]
                  /\ lcl' = [lcl EXCEPT ![o].provider = prov.type,
                                        ![o].vectorSize = prov.vectorSize]
                  /\ CallStart(o, [k \in 1..Len(lcl[o].chunks) |-> lcl[o].chunks[k].text],
                               prov.model)
                  /\ UNCHANGED response
  /\ UNCHANGED <<cfgVars, textProcessor, store, uuid, served, request, clientVars>>

\* generateEmbeddings rejected: the handler's catch block runs.
EmbeddingsThrow(o) ==
  /\ pc[o] = "embedding"
  /\ epc[o] = "failed"
  /\ Caught(o, callError[o])
  /\ UNCHANGED <<cfgVars, textProcessor, store, uuid, served, request, oplog,
                 embedVars, clientVars>>

\* Lines 303-308: the embeddings are there, call listCollections.
AddDocumentsList(o) ==
  /\ pc[o] = "embedding"
  /\ request[o].tool = "add_documents"
  /\ epc[o] = "returned"
  /\ pc' = [pc EXCEPT ![o] = "listing"]
  /\ lcl' = [lcl EXCEPT ![o].embeddings = result[o]]
  /\ oplog' = [oplog EXCEPT ![o] = Append(@, LogEntry("listCollections", "", 0))]
  /\ UNCHANGED <<cfgVars, textProcessor, store, uuid, served, request, response,
                 embedVars, clientVars>>

\* Points that all carry one id, generated once outside the map callback.
PointsOneId(o, firstId) ==
  [k \in 1..Len(lcl[o].chunks) |->
     [id |-> firstId + 1,
      vector |-> IF k <= Len(lcl[o].embeddings) THEN lcl[o].embeddings[k]
                 ELSE NoEmbedding,
      text |-> lcl[o].chunks[k].text,
      index |-> lcl[o].chunks[k].index]]

\* Lines 314-324: the points of the addDocuments call.
Points(o, firstId) ==
  [k \in 1..Len(lcl[o].chunks) |->
     [id |-> firstId + k,
      vector |-> IF k <= Len(lcl[o].embeddings) THEN lcl[o].embeddings[k]
                 ELSE NoEmbedding,
      text |-> lcl[o].chunks[k].text,
      index |-> lcl[o].chunks[k].index]]

CallAddDocuments(o, log) ==
  /\ pc' = [pc EXCEPT ![o] = "adding"]
  /\ oplog' = [oplog EXCEPT ![o] =
        Append(log, LogEntry("addDocuments", request[o].collection, Len(lcl[o].chunks)))]
  /\ uuid' = uuid + Len(lcl[o].chunks)

\* Line 309: !collections.includes(args.collection).
NeedsCreateAlways(collections, name) == TRUE
NeedsCreate(collections, name) == name \notin collections

\* Lines 308-311: listCollections settles; create the collection if it is
\* not listed, else go on to addDocuments.
ListCollectionsDone(o) ==
  /\ pc[o] = "listing"
  /\ \/ /\ Caught(o, HttpError(500))
        /\ UNCHANGED <<oplog, uuid>>
     \/ LET collections == ExistingCollections
        IN IF NeedsCreate(collections, request[o].collection)
             THEN /\ pc' = [pc EXCEPT ![o] = "creating"]
                  /\ lcl' = [lcl EXCEPT ![o].collections = collections]
                  /\ oplog' = [oplog EXCEPT ![o] = Append(@,
                        LogEntry("createCollection", request[o].collection,
                                 lcl[o].vectorSize))]
                  /\ UNCHANGED <<uuid, response>>
             ELSE /\ CallAddDocuments(o, oplog[o])
                  /\ lcl' = [lcl EXCEPT ![o].collections = collections,
                                        ![o].points = Points(o, uuid)]
                  /\ UNCHANGED response
  /\ UNCHANGED <<cfgVars, textProcessor, store, served, request, embedVars, clientVars>>

\* Lines 310-324: createCollection settles; the store refuses a name that
\* exists.
CreateCollectionDone(o) ==
  /\ pc[o] = "creating"
  /\ LET name == request[o].collection
     IN \/ /\ Caught(o, IF store[name].exists THEN HttpError(409) ELSE HttpError(500))
           /\ UNCHANGED <<oplog, uuid, store>>
        \/ /\ ~store[name].exists
           /\ store' = [store EXCEPT ![name] = EmptyCollection(lcl[o].vectorSize)]
           /\ CallAddDocuments(o, oplog[o])
           /\ lcl' = [lcl EXCEPT ![o].points = Points(o, uuid)]
           /\ UNCHANGED response
  /\ UNCHANGED <<cfgVars, textProcessor, served, request, embedVars, clientVars>>

\* addDocuments settles; on failure a collection this call created is
\* deleted again.
AddDocumentsDoneRollback(o) ==
  /\ pc[o] = "adding"
  /\ LET name == request[o].collection
     IN \/ /\ Caught(o, IF store[name].exists THEN HttpError(500) ELSE HttpError(404))
           /\ IF \E j \in DOMAIN oplog[o] : oplog[o][j].call = "createCollection"
                THEN /\ store' = [store EXCEPT ![name] = NoCollection]
                     /\ oplog' = [oplog EXCEPT ![o] =
                           Append(@, LogEntry("deleteCollection", name, 0))]
                ELSE UNCHANGED <<store, oplog>>
        \/ /\ store[name].exists
           /\ store' = [store EXCEPT ![name].points = @ \cup Range(lcl[o].points)]
           /\ pc' = [pc EXCEPT ![o] = "done"]
           /\ response' = [response EXCEPT ![o] =
                 [NoResponse EXCEPT !.text = "Successfully processed and added",
                                    !.n = Len(lcl[o].chunks),
                                    !.collection = name]]
           /\ UNCHANGED <<lcl, oplog>>
  /\ UNCHANGED <<cfgVars, textProcessor, uuid, served, request, embedVars, clientVars>>

\* Lines 314-333: addDocuments settles.
AddDocumentsDone(o) ==
  /\ pc[o] = "adding"
  /\ LET name == request[o].collection
     IN \/ /\ Caught(o, IF store[name].exists THEN HttpError(500) ELSE HttpError(404))
           /\ UNCHANGED store
        \/ /\ store[name].exists
           /\ store' = [store EXCEPT ![name].points = @ \cup Range(lcl[o].points)]
           /\ pc' = [pc EXCEPT ![o] = "done"]
           /\ response' = [response EXCEPT ![o] =
                 [NoResponse EXCEPT !.text = "Successfully processed and added",
                                    !.n = Len(lcl[o].chunks),
                                    !.collection = name]]
           /\ UNCHANGED lcl
  /\ UNCHANGED <<cfgVars, textProcessor, uuid, served, request, oplog, embedVars, clientVars>>

\* Lines 348-367: resolve and construct the provider, embed the query.
SearchBegin(o) ==
  /\ pc[o] = "received"
  /\ request[o].tool = "search"
  /\ request[o].wellTyped
  /\ LET prov == ProviderFor(appConfig, request[o].embeddingService)
     IN /\ oplog' = [oplog EXCEPT ![o] =
                IF prov.constructed
                  THEN Append(@, LogEntry("createEmbeddingService", prov.type, 0))
                  ELSE @]
        /\ IF prov.err # NoError
             THEN Caught(o, prov.err) /\ UNCHANGED embedVars
             ELSE /\ pc' = [pc EXCEPT ![o] = "embedding"]
                  /\ lcl' = [lcl EXCEPT ![o].provider = prov.type,
                                        ![o].vectorSize = prov.vectorSize]
                  /\ CallStart(o, <<request[o].query>>, prov.model)
                  /\ UNCHANGED response
  /\ UNCHANGED <<cfgVars, textProcessor, store, uuid, served, request, clientVars>>

\* Lines 367-374: the query embedding is there, call search.
SearchCall(o) ==
  /\ pc[o] = "embedding"
  /\ request[o].tool = "search"
  /\ epc[o] = "returned"
  /\ pc' = [pc EXCEPT ![o] = "searching"]
  /\ lcl' = [lcl EXCEPT ![o].embeddings = result[o]]
  /\ oplog' = [oplog EXCEPT ![o] = Append(@, LogEntry("search", request[o].collection, 0))]
  /\ UNCHANGED <<cfgVars, textProcessor, store, uuid, served, request, response,
                 embedVars, clientVars>>

\* qdrant.ts line 177: limit: number = 10.
SearchLimit(limit) == IF limit.def THEN limit.n ELSE 10

\* The n points of a collection with the smallest ids, by increasing id.
RECURSIVE FirstPoints(_, _)
FirstPoints(points, n) ==
  IF n = 0 \/ points = {} THEN <<>>
  ELSE LET first == CHOOSE q \in points : \A r \in points : q.id <= r.id
       IN <<first>> \o FirstPoints(points \ {first}, n - 1)

\* Lines 376-391 without lines 393-395: the text stays empty.
FormatResultsNoFallback(results) ==
  [NoResponse EXCEPT
     !.blocks = [k \in 1..Len(results) |-> [rank |-> k, text |-> results[k].text]],
     !.n = Len(results),
     !.text = IF Len(results) = 0 THEN "" ELSE "Result"]

\* Lines 376-395: one block per result, or the explicit text.
FormatResults(results) ==
  [NoResponse EXCEPT
     !.blocks = [k \in 1..Len(results) |-> [rank |-> k, text |-> results[k].text]],
     !.n = Len(results),
     !.text = IF Len(results) = 0 THEN "No results found." ELSE "Result"]

\* Lines 370-404: search settles.
SearchDone(o) ==
  /\ pc[o] = "searching"
  /\ LET name == request[o].collection
     IN \/ Caught(o, IF store[name].exists THEN HttpError(500) ELSE HttpError(404))
        \/ /\ store[name].exists
           /\ \E n \in 0..Min(SearchLimit(request[o].limit), Cardinality(store[name].points)) :
                LET results == FirstPoints(store[name].points, n)
                IN /\ response' = [response EXCEPT ![o] = FormatResults(results)]
                   /\ lcl' = [lcl EXCEPT ![o].results = results]
           /\ pc' = [pc EXCEPT ![o] = "done"]
  /\ UNCHANGED <<cfgVars, textProcessor, store, uuid, served, request, oplog,
                 embedVars, clientVars>>

\* Lines 419-422: call deleteCollection.
DeleteBegin(o) ==
  /\ pc[o] = "received"
  /\ request[o].tool = "delete_collection"
  /\ request[o].wellTyped
  /\ pc' = [pc EXCEPT ![o] = "deleting"]
  /\ oplog' = [oplog EXCEPT ![o] =
        Append(@, LogEntry("deleteCollection", request[o].collection, 0))]
  /\ UNCHANGED <<cfgVars, textProcessor, store, uuid, served, request, lcl, response,
                 embedVars, clientVars>>

\* Lines 422-443: deleteCollection settles.
DeleteDone(o) ==
  /\ pc[o] = "deleting"
  /\ LET name == request[o].collection
     IN \/ /\ Caught(o, IF store[name].exists THEN HttpError(500) ELSE HttpError(404))
           /\ UNCHANGED store
        \/ /\ store' = [store EXCEPT ![name] = NoCollection]
           /\ pc' = [pc EXCEPT ![o] = "done"]
           /\ response' = [response EXCEPT ![o] =
                 [NoResponse EXCEPT !.text = "Successfully deleted collection",
                                    !.collection = name]]
           /\ UNCHANGED lcl
  /\ UNCHANGED <<cfgVars, textProcessor, uuid, served, request, oplog, embedVars, clientVars>>

\* Lines 238-240: call listCollections.
ListBegin(o) ==
  /\ pc[o] = "received"
  /\ request[o].tool = "list_collections"
  /\ pc' = [pc EXCEPT ![o] = "listingAll"]
  /\ oplog' = [oplog EXCEPT ![o] = Append(@, LogEntry("listCollections", "", 0))]
  /\ UNCHANGED <<cfgVars, textProcessor, store, uuid, served, request, lcl, response,
                 embedVars, clientVars>>

\* Lines 240-260: listCollections settles.
ListDone(o) ==
  /\ pc[o] = "listingAll"
  /\ \/ Caught(o, HttpError(500))
     \/ /\ pc' = [pc EXCEPT ![o] = "done"]
        /\ response' = [response EXCEPT ![o] =
              [NoResponse EXCEPT !.text = "collections", !.names = ExistingCollections]]
        /\ UNCHANGED lcl
  /\ UNCHANGED <<cfgVars, textProcessor, store, uuid, served, request, oplog,
                 embedVars, clientVars>>

\* ------------------------------------------------------------ the server
Env(provider, embeddingModel, openaiKey) ==
  [EMBEDDING_PROVIDER |-> provider, EMBEDDING_MODEL |-> embeddingModel,
   OPENAI_API_KEY |-> openaiKey]

DefaultEnv == Env(Undefined, Undefined, Undefined)

ServerIdle(e, st, sc) ==
  /\ env = e
  /\ appConfig = LoadConfig(e)
  /\ textProcessor = [chunkSize |-> DefaultChunkSize, chunkOverlap |-> DefaultChunkOverlap]
  /\ storeCall = StoreIdle
  /\ store = st
  /\ uuid = 0
  /\ scenario = sc
  /\ served = 0
  /\ request = [o \in Ops |-> NoRequest]
  /\ pc = [o \in Ops |-> "idle"]
  /\ lcl = [o \in Ops |-> NoLocals]
  /\ oplog = [o \in Ops |-> <<>>]
  /\ response = [o \in Ops |-> NoResponse]

EmptyStore == [c \in CollectionNames |-> NoCollection]

NoScenario == [requests |-> "none", handlers |-> {}, files |-> {}, maxRequests |-> 0]

ServerUnused == ServerIdle(DefaultEnv, EmptyStore, NoScenario)

\* ----------------------------------------- calls of createQdrantService
InitQdrant ==
  /\ EmbedIdle
  /\ ServerUnused
  /\ \E u \in UrlStrings, key \in ApiKeys : qdrant = QdrantCall(u, key)

NextQdrant ==
  \/ CreateQdrantService /\ UNCHANGED <<embedVars, serverVars, storeCall>>
  \/ CallCreateQdrantService /\ UNCHANGED <<embedVars, serverVars, storeCall>>

SpecQdrant == InitQdrant /\ [][NextQdrant]_vars

\* --------------------------------- calls of the DefaultQdrantService methods
InitStore ==
  /\ EmbedIdle
  /\ qdrant = QdrantDefault
  /\ ServerUnused

NextStore ==
  \/ \E op \in StoreOps : ServiceCall(op) /\ UNCHANGED <<embedVars, serverVars, qdrant>>
  \/ \E r \in FetchOutcomes(storeCall.op) :
       ServiceSettle(r) /\ UNCHANGED <<embedVars, serverVars, qdrant>>

SpecStore == InitStore /\ [][NextStore]_vars

\* ------------------------------------------- a direct generateEmbeddings call
\* Inputs of the direct call: n texts, pairwise distinct or alternating
\* between two values.
InputTexts ==
  UNION { { [k \in 1..n |-> <<k>>], [k \in 1..n |-> <<(k - 1) % 2>>] } : n \in 0..MaxTexts }

InitEmbed ==
  \E ts \in InputTexts :
    /\ texts = [c \in Ops |-> IF c = 1 THEN ts ELSE <<>>]
    /\ model = [c \in Ops |-> DefaultModel]
    /\ idx = [c \in Ops |-> 0]
    /\ epc = [c \in Ops |-> IF c = 1 THEN "loop" ELSE "idle"]
    /\ promise = [c \in Ops |-> IF c = 1 THEN [k \in 1..Len(ts) |-> Unissued] ELSE <<>>]
    /\ embeddingPromises = [c \in Ops |-> <<>>]
    /\ batchAll = [c \in Ops |-> AllPending]
    /\ outOfOrder = [c \in Ops |-> FALSE]
    /\ result = [c \in Ops |-> <<>>]
    /\ callError = [c \in Ops |-> NoError]
    /\ qdrant = QdrantDefault
    /\ ServerUnused

NextEmbed ==
  \/ IssueBatch(1) /\ UNCHANGED <<clientVars, serverVars>>
  \/ \E k \in 1..Len(texts[1]), resp \in Responses : Settle(1, k, resp) /\ UNCHANGED <<clientVars, serverVars>>
  \/ AwaitBatchDone(1) /\ UNCHANGED <<clientVars, serverVars>>
  \/ AwaitBatchThrow(1) /\ UNCHANGED <<clientVars, serverVars>>
  \/ ReturnAll(1) /\ UNCHANGED <<clientVars, serverVars>>

SpecEmbed == InitEmbed /\ [][NextEmbed]_vars

\* The event loop runs a continuation that is ready, and a request that was
\* issued is answered: a step that can be taken is taken.
SpecEmbedFair == SpecEmbed /\ WF_vars(NextEmbed)

\* -------------------------------------------------------- server scenarios
MaxRequests == 2        \* tool calls served one after the other

\* One handler, one add_documents call with any file path.
InitPath ==
  /\ EmbedIdle
  /\ qdrant = QdrantDefault
  /\ ServerIdle(DefaultEnv, EmptyStore,
       [requests |-> "anyPath",
        handlers |-> {1},
        files |-> {<<>>, <<1, 2, 3, 4>>},
        maxRequests |-> 1])

NextIngest ==
  \/ \E o \in Ops : Receive(o)
  \/ \E o \in Ops : AddDocumentsBegin(o)
  \/ \E o \in Ops : ReadFileDone(o)
  \/ \E o \in Ops : AddDocumentsEmbed(o)
  \/ \E o \in Ops : IssueBatch(o) /\ UNCHANGED <<clientVars, serverVars>>
  \/ \E o \in Ops : \E k \in 1..Len(texts[o]), resp \in Responses :
        Settle(o, k, resp) /\ UNCHANGED <<clientVars, serverVars>>
  \/ \E o \in Ops : AwaitBatchDone(o) /\ UNCHANGED <<clientVars, serverVars>>
  \/ \E o \in Ops : AwaitBatchThrow(o) /\ UNCHANGED <<clientVars, serverVars>>
  \/ \E o \in Ops : ReturnAll(o) /\ UNCHANGED <<clientVars, serverVars>>
  \/ \E o \in Ops : EmbeddingsThrow(o)
  \/ \E o \in Ops : AddDocumentsList(o)
  \/ \E o \in Ops : ListCollectionsDone(o)
  \/ \E o \in Ops : CreateCollectionDone(o)
  \/ \E o \in Ops : AddDocumentsDone(o)

SpecPath == InitPath /\ [][NextIngest]_vars

NextServer ==
  \/ NextIngest
  \/ \E o \in Ops : RejectArguments(o)
  \/ \E o \in Ops : SearchBegin(o)
  \/ \E o \in Ops : SearchCall(o)
  \/ \E o \in Ops : SearchDone(o)
  \/ \E o \in Ops : DeleteBegin(o)
  \/ \E o \in Ops : DeleteDone(o)
  \/ \E o \in Ops : ListBegin(o)
  \/ \E o \in Ops : ListDone(o)

\* One handler serving MaxRequests calls of any tool, one after the other.
InitServer ==
  /\ EmbedIdle
  /\ qdrant = QdrantDefault
  /\ \E e \in {DefaultEnv, Env(Undefined, Str("all-minilm"), Undefined)},
        st \in {EmptyStore,
                [EmptyStore EXCEPT !["docs"] = EmptyCollection(vectorSize)],
                [EmptyStore EXCEPT !["docs"] = EmptyCollection(HostedVectorSize)]} :
       ServerIdle(e, st,
         [requests |-> "anyTool",
          handlers |-> {1},
          files |-> {<<>>, <<1, 2, 3, 4>>},
          maxRequests |-> MaxRequests])

Spec == InitServer /\ [][NextServer]_vars

\* One handler serving MaxRequests add_documents calls one after the other,
\* each with any chunkSize and chunkOverlap.
InitChunking ==
  /\ EmbedIdle
  /\ qdrant = QdrantDefault
  /\ ServerIdle(DefaultEnv, EmptyStore,
       [requests |-> "anyChunking",
        handlers |-> {1},
        files |-> {<<1, 2, 3, 4>>},
        maxRequests |-> MaxRequests])

SpecChunking == InitChunking /\ [][NextIngest]_vars

\* One handler, one add_documents or search call, for every combination of
\* EMBEDDING_PROVIDER and the embeddingService argument.
InitResolve ==
  /\ EmbedIdle
  /\ qdrant = QdrantDefault
  /\ \E provider \in {Undefined, Str(""), Str("ollama"), Str("openai"), Str("bogus")},
        key \in {Undefined, Str("sk-test")} :
       ServerIdle(Env(provider, Undefined, key),
         [EmptyStore EXCEPT !["notes"] = EmptyCollection(vectorSize)],
         [requests |-> "anyProvider",
          handlers |-> {1},
          files |-> {<<1, 2>>},
          maxRequests |-> 1])

NextResolve ==
  \/ NextIngest
  \/ \E o \in Ops : SearchBegin(o)
  \/ \E o \in Ops : SearchCall(o)
  \/ \E o \in Ops : SearchDone(o)

SpecResolve == InitResolve /\ [][NextResolve]_vars

\* Every handler serves one call at the same time as the others: an
\* add_documents call whose file yields three chunks, or a search.
InitConcurrent ==
  /\ EmbedIdle
  /\ qdrant = QdrantDefault
  /\ ServerIdle(DefaultEnv,
       [EmptyStore EXCEPT !["notes"] = EmptyCollection(vectorSize)],
       [requests |-> "threeChunks",
        handlers |-> Ops,
        files |-> {<<1, 2, 3, 4>>},
        maxRequests |-> NumOps])

SpecConcurrent == InitConcurrent /\ [][NextResolve]_vars

\* ------------------------------------------------------------ claims C1-C3
BatchOf(k) == (k - 1) \div concurrencyLimit

InFlight(c) == {k \in DOMAIN promise[c] : promise[c][k].st = "pending"}

C2_BatchesSequential ==
  \A c \in Ops :
    /\ Cardinality(InFlight(c)) <= concurrencyLimit
    /\ \A j, k \in DOMAIN promise[c] :
         (BatchOf(j) < BatchOf(k) /\ promise[c][k].st # "unissued")
           => promise[c][j].st \in {"fulfilled", "rejected"}

C2_Witness ==
  \E c \in Ops :
    /\ idx[c] >= concurrencyLimit
    /\ Cardinality(InFlight(c)) = concurrencyLimit

\* C3: once a request of a call has failed, the call can only fail: it never
\* returns, delivers no vector, and issues no request of a later batch.
C3_FailureAbortsCall ==
  \A c \in Ops :
    /\ epc[c] = "failed" => result[c] = <<>> /\ callError[c] # NoError
    /\ \A k \in DOMAIN promise[c] :
         promise[c][k].st = "rejected" =>
           /\ epc[c] \in {"awaitBatch", "failed"}
           /\ result[c] = <<>>
           /\ \A j \in DOMAIN promise[c] :
                BatchOf(j) > BatchOf(k) => promise[c][j].st = "unissued"

C3_Witness ==
  \E c \in Ops :
    /\ epc[c] = "failed"
    /\ idx[c] >= concurrencyLimit
    /\ Len(texts[c]) > idx[c] + concurrencyLimit
    /\ \E k \in DOMAIN promise[c] : promise[c][k].st = "fulfilled" /\ BatchOf(k) = 0
    /\ \E k \in DOMAIN promise[c] :
         promise[c][k].st = "rejected" /\ promise[c][k].err # "AxiosError"

\* -------------------------------------------------------------- claim C4
CredentialSupplied(q) == q.apiKey.def /\ q.apiKey.s # ""

SchemeEncrypted(q) == q.url.scheme \in {"https", "HTTPS"}

HostLocal(q) ==
  q.url.host \in {"localhost", "LOCALHOST", "127.0.0.1",
                  "host.container.internal", "Host.Container.Internal"}

Calls(o, call) == {j \in DOMAIN oplog[o] : oplog[o][j].call = call}

\* The resolved path is the directory or lies below it: the segments of the
\* directory are the first segments of the path.
InsideDirectory(path, dir) ==
  LET ps == NormalizeSegments(SplitPath(path), <<>>)
      ds == NormalizeSegments(SplitPath(dir), <<>>)
  IN Len(ps) >= Len(ds) /\ SubSeq(ps, 1, Len(ds)) = ds

\* C5: an add_documents call whose file path resolves to a place that is
\* neither the upload directory nor inside it is rejected, and readFile is
\* never called for it.
C5_OutsidePathsNeverRead ==
  \A o \in Ops :
    ( /\ request[o].tool = "add_documents"
      /\ request[o].wellTyped
      /\ pc[o] \notin {"idle", "received"}
      /\ ~InsideDirectory(PathResolve(appConfig.mcpUploadDir, request[o].filePath),
                          appConfig.mcpUploadDir) )
    => /\ pc[o] = "done"
       /\ response[o].isError
       /\ Calls(o, "readFile") = {}

\* C6: an ingest that finds its collection missing from the list issues
\* createCollection with the provider's vectorSize before addDocuments; an
\* ingest that finds it in the list issues no createCollection.
ProviderVectorSize(type) == IF type = "ollama" THEN 768 ELSE 1536

C6_CreateOnlyIfAbsent ==
  \A o \in Ops :
    request[o].tool = "add_documents" =>
      /\ \A j \in Calls(o, "addDocuments") :
           request[o].collection \notin lcl[o].collections =>
             \E i \in Calls(o, "createCollection") :
               /\ i < j
               /\ oplog[o][i].collection = request[o].collection
               /\ oplog[o][i].size = ProviderVectorSize(lcl[o].provider)
      /\ request[o].collection \in lcl[o].collections =>
           Calls(o, "createCollection") = {}
      /\ Cardinality(Calls(o, "createCollection")) <= 1

C6_Witness ==
  \E o \in Ops :
    /\ pc[o] = "done"
    /\ ~response[o].isError
    /\ Calls(o, "createCollection") # {}
    /\ Calls(o, "addDocuments") # {}
    /\ served = 2

\* C7: every point stored in a collection has a vector as long as the
\* dimension of the collection.
C7_VectorLengthMatchesCollection ==
  \A c \in CollectionNames :
    store[c].exists =>
      \A q \in store[c].points : q.vector.len = store[c].size

\* C8: at most concurrencyLimit embedding requests are in flight in the
\* process, over all generateEmbeddings calls.
C8_ProcessWideLimit ==
  Cardinality(UNION {{<<c, k>> : k \in InFlight(c)} : c \in Ops}) <= concurrencyLimit

\* C9: the handler works with the provider EMBEDDING_PROVIDER names, else
\* with the one the request names; it rejects the call when neither names
\* one, and rejects a name that is not allowed without constructing a
\* provider.
PastResolution(o) ==
  \/ request[o].tool = "add_documents"
       /\ pc[o] \in {"embedding", "listing", "creating", "adding"}
  \/ request[o].tool = "search" /\ pc[o] \in {"embedding", "searching"}
  \/ /\ request[o].tool \in {"add_documents", "search"}
     /\ pc[o] = "done"
     /\ lcl[o].caught \notin {"File path attempts to access forbidden directory.",
                              "Error reading file: ENOENT"}

NamedProvider(o) ==
  IF Truthy(env.EMBEDDING_PROVIDER) THEN env.EMBEDDING_PROVIDER
  ELSE request[o].embeddingService

C9_ProviderResolution ==
  \A o \in Ops :
    PastResolution(o) =>
      IF ~Truthy(NamedProvider(o)) \/ NamedProvider(o).s \notin AllowedEmbeddingServices
        THEN /\ pc[o] = "done"
             /\ response[o].isError
             /\ Calls(o, "createEmbeddingService") = {}
             /\ \A k \in DOMAIN promise[o] : promise[o][k].st = "unissued"
        ELSE \A j \in Calls(o, "createEmbeddingService") :
               oplog[o][j].collection = NamedProvider(o).s

\* C10: a handler that caught an error answers with isError and the fixed
\* text of its tool, which is not the message of the error; a handler that
\* caught none does not answer with isError.
C10_GenericErrorResponse ==
  \A o \in Ops :
    pc[o] = "done" /\ ~response[o].thrown =>
      /\ response[o].isError <=> lcl[o].caught # NoError
      /\ response[o].isError =>
           /\ response[o].text # lcl[o].caught
           /\ response[o].text =
                (CASE request[o].tool = "list_collections" ->
                        "Error listing collections. Please check server logs for details."
                   [] request[o].tool = "add_documents" ->
                        "Error adding documents. Please check server logs for details."
                   [] request[o].tool = "search" ->
                        "Error searching. Please check server logs for details."
                   [] request[o].tool = "delete_collection" ->
                        "Error deleting collection. Please check server logs for details.")
           /\ response[o].blocks = <<>>
           /\ response[o].names = {}
           /\ response[o].collection = ""

C10_Witness ==
  \E o \in Ops :
    /\ pc[o] = "done"
    /\ request[o].tool = "add_documents"
    /\ response[o].isError
    /\ lcl[o].caught = "HTTP error! Status: 500"
    /\ Calls(o, "addDocuments") # {}

\* ------------------------------------------------------ claims C11 and C15
\* C11: a call of a DefaultQdrantService method issues exactly one HTTP
\* request, and when the response to it has a status outside 200..299 the
\* call throws an error that carries that status and delivers no result.
C11_OneRequestStatusCarried ==
  /\ storeCall.pc # "idle" => storeCall.requests = 1
  /\ ( /\ storeCall.pc \in {"returned", "threw"}
       /\ storeCall.response.received
       /\ storeCall.response.status \notin 200..299 )
     => /\ storeCall.pc = "threw"
        /\ storeCall.error.name = "Error"
        /\ storeCall.error.status = storeCall.response.status
        /\ ~storeCall.hasResult
        /\ storeCall.result = <<>>

C11_Witness ==
  /\ storeCall.pc = "threw"
  /\ storeCall.op = "search"
  /\ storeCall.response.status = 404
  /\ storeCall.response.json
  /\ storeCall.response.data # <<>>

\* C15: search maps every result of the answer, in order, to a SearchResult
\* with the same id, score and payload; the SearchResult has the vector of
\* the result when that is an array of numbers only, and no vector field
\* otherwise.
C15_VectorOnlyIfNumberArray ==
  (storeCall.pc = "returned" /\ storeCall.op = "search") =>
    /\ Len(storeCall.result) = Len(storeCall.response.data)
    /\ \A k \in DOMAIN storeCall.response.data :
         LET r == storeCall.response.data[k]
             out == storeCall.result[k]
         IN /\ out.id = r.id
            /\ out.score = r.score
            /\ out.payload = r.payload
            /\ IF r.vector.kind = "array"
                    /\ \A j \in DOMAIN r.vector.elems : r.vector.elems[j] = "number"
                 THEN out.vector = r.vector
                 ELSE out.vector = [kind |-> "undefined", elems |-> <<>>]

C15_Witness ==
  /\ storeCall.pc = "returned"
  /\ storeCall.op = "search"
  /\ Len(storeCall.result) = 2
  /\ storeCall.response.data[1].vector = [kind |-> "array", elems |-> <<"number", "string">>]
  /\ storeCall.result[2].vector = [kind |-> "array", elems |-> <<"number", "number">>]

C13_EmptyInputEmptyOutput ==
  \A c \in Ops :
    (epc[c] # "idle" /\ texts[c] = <<>>) =>
      /\ epc[c] \in {"loop", "returned"}
      /\ embeddingPromises[c] = <<>>
      /\ promise[c] = <<>>
      /\ result[c] = <<>>
      /\ callError[c] = NoError

C13_Witness ==
  \E c \in Ops : epc[c] = "returned" /\ texts[c] = <<>> /\ result[c] = <<>>

\* ---------------------------------------------------------------- claim C14
\* C14: a search that succeeds with no results answers 'No results found.'
\* and never an empty text; one that succeeds with n >= 1 results answers
\* with n blocks, block k holding the text of result k.
C14_NoResultsExplicit ==
  \A o \in Ops :
    ( /\ request[o].tool = "search"
      /\ pc[o] = "done"
      /\ ~response[o].isError
      /\ ~response[o].thrown )
    => /\ response[o].text # ""
       /\ Len(lcl[o].results) = 0 =>
            response[o].text = "No results found." /\ response[o].blocks = <<>>
       /\ Len(lcl[o].results) >= 1 =>
            /\ response[o].text # "No results found."
            /\ Len(response[o].blocks) = Len(lcl[o].results)
            /\ \A k \in DOMAIN lcl[o].results :
                 /\ response[o].blocks[k].rank = k
                 /\ response[o].blocks[k].text = lcl[o].results[k].text

C14_Witness ==
  \E o \in Ops :
    /\ request[o].tool = "search"
    /\ pc[o] = "done"
    /\ ~response[o].isError
    /\ Len(lcl[o].results) = 2
    /\ Len(response[o].blocks) = 2

\* ------------------------------------------------------ claims C16 and C20
\* The chunking an ingest asks for: its own arguments, the defaults for
\* those it does not give.
OwnChunking(r) ==
  [chunkSize |-> IF r.chunkSize.def THEN r.chunkSize.n ELSE DefaultChunkSize,
   chunkOverlap |-> IF r.chunkOverlap.def THEN r.chunkOverlap.n ELSE DefaultChunkOverlap]

\* C16: an add_documents call that gives a chunkSize <= 0, or a chunkOverlap
\* not smaller than the chunk size, is rejected before it reads the file,
\* constructs a provider or calls the store.
C16_BadChunkingRejected ==
  \A o \in Ops :
    ( /\ request[o].tool = "add_documents"
      /\ request[o].wellTyped
      /\ pc[o] \notin {"idle", "received"}
      /\ \/ request[o].chunkSize.def /\ request[o].chunkSize.n <= 0
         \/ /\ request[o].chunkOverlap.def
            /\ request[o].chunkOverlap.n >= OwnChunking(request[o]).chunkSize )
    => /\ pc[o] = "done"
       /\ response[o].isError
       /\ oplog[o] = <<>>

\* C20: the chunks of an ingest are those of its file under its own
\* chunkSize and chunkOverlap, or the defaults for those it does not give,
\* whatever other ingests have asked for.
C20_ChunkingFromOwnArguments ==
  \A o \in Ops :
    ( /\ request[o].tool = "add_documents"
      /\ pc[o] \notin {"idle", "received", "reading"}
      /\ OwnChunking(request[o]).chunkSize > 0
      /\ OwnChunking(request[o]).chunkOverlap >= 0
      /\ OwnChunking(request[o]).chunkOverlap < OwnChunking(request[o]).chunkSize )
    => lcl[o].chunks = ProcessFile(lcl[o].content, OwnChunking(request[o]))

\* ------------------------------------------------------ claims C17 to C19
\* Place of a call in the fixed order of the steps of its handler.
StepRank(name) ==
  CASE name = "readFile" -> 1
    [] name = "createEmbeddingService" -> 2
    [] name = "listCollections" -> 3
    [] name = "search" -> 3
    [] name = "createCollection" -> 4
    [] name = "addDocuments" -> 5
    [] OTHER -> 1

\* C17: a handler makes its calls in the fixed order and each at most once;
\* an ingest that failed before or in generateEmbeddings has called none of
\* listCollections, createCollection and addDocuments, one that failed in
\* listCollections or createCollection has not called addDocuments, and a
\* search that failed before or in generateEmbeddings has not called search;
\* a handler that caught a failure is done and answers with an error.
C17_StopAtFirstFailure ==
  \A o \in Ops :
    /\ \A i, j \in DOMAIN oplog[o] :
         i < j => StepRank(oplog[o][i].call) < StepRank(oplog[o][j].call)
    /\ lcl[o].failedAt # "none" => pc[o] = "done" /\ response[o].isError
    /\ ( /\ request[o].tool = "add_documents"
         /\ lcl[o].failedAt \in {"received", "reading", "chunking", "embedding"} )
       => /\ Calls(o, "listCollections") = {}
          /\ Calls(o, "createCollection") = {}
          /\ Calls(o, "addDocuments") = {}
    /\ (request[o].tool = "add_documents" /\ lcl[o].failedAt \in {"listing", "creating"})
       => Calls(o, "addDocuments") = {}
    /\ (request[o].tool = "search" /\ lcl[o].failedAt \in {"received", "embedding"})
       => Calls(o, "search") = {}

C17_Witness ==
  \E o \in Ops :
    /\ request[o].tool = "add_documents"
    /\ pc[o] = "done"
    /\ lcl[o].failedAt = "creating"
    /\ Calls(o, "readFile") # {}
    /\ Calls(o, "createCollection") # {}
    /\ Len(lcl[o].embeddings) >= 2

\* C18: an ingest that created its collection and whose addDocuments failed
\* answers with an error and has called no deleteCollection; the collection
\* exists and holds none of the points of this ingest.
C18_NoRollback ==
  \A o \in Ops :
    ( /\ request[o].tool = "add_documents"
      /\ pc[o] = "done"
      /\ lcl[o].failedAt = "adding"
      /\ Calls(o, "createCollection") # {} )
    => /\ response[o].isError
       /\ Calls(o, "deleteCollection") = {}
       /\ store[request[o].collection].exists
       /\ store[request[o].collection].points \cap Range(lcl[o].points) = {}

C18_Witness ==
  \E o \in Ops :
    /\ request[o].tool = "add_documents"
    /\ pc[o] = "done"
    /\ lcl[o].failedAt = "adding"
    /\ Calls(o, "createCollection") # {}
    /\ Len(lcl[o].points) >= 2
    /\ store[request[o].collection] = EmptyCollection(lcl[o].vectorSize)

\* C19: no ingest has a createCollection call outstanding for a collection
\* that exists.
C19_NoCreateOfExisting ==
  \A o \in Ops :
    pc[o] = "creating" => ~store[request[o].collection].exists

\* ---------------------------------------------------------------- claim C21
\* C21: an ingest that succeeded with n chunks has made one addDocuments
\* call with n points; point i has the vector the request for chunk i was
\* answered with and the text of chunk i, the ids of the points differ
\* pairwise, and the points are in the collection.
C21_OnePointPerChunk ==
  \A o \in Ops :
    ( /\ request[o].tool = "add_documents"
      /\ pc[o] = "done"
      /\ ~response[o].isError
      /\ ~response[o].thrown )
    => /\ Cardinality(Calls(o, "addDocuments")) = 1
       /\ \A j \in Calls(o, "addDocuments") :
            /\ oplog[o][j].size = Len(lcl[o].chunks)
            /\ oplog[o][j].collection = request[o].collection
       /\ Len(lcl[o].points) = Len(lcl[o].chunks)
       /\ response[o].n = Len(lcl[o].chunks)
       /\ \A i \in DOMAIN lcl[o].chunks :
            /\ lcl[o].points[i].text = lcl[o].chunks[i].text
            /\ lcl[o].points[i].vector = promise[o][i].val
            /\ promise[o][i].prompt = lcl[o].chunks[i].text
            /\ lcl[o].points[i].vector.of = lcl[o].chunks[i].text
       /\ \A i, j \in DOMAIN lcl[o].points :
            i # j => lcl[o].points[i].id # lcl[o].points[j].id
       /\ Range(lcl[o].points) \subseteq store[request[o].collection].points

C21_Witness ==
  \E o \in Ops :
    /\ request[o].tool = "add_documents"
    /\ pc[o] = "done"
    /\ ~response[o].isError
    /\ Len(lcl[o].chunks) = 2
    /\ lcl[o].chunks[1].text # lcl[o].chunks[2].text
    /\ outOfOrder[o]

\* ------------------------------------------------------ claims C22 and C23
\* ceil(n / concurrencyLimit).
BatchCount(n) == (n + concurrencyLimit - 1) \div concurrencyLimit

\* The call has returned after one request per text, pushed in input order,
\* each answered once, and as many loop iterations as there are batches.
ReturnedAfterOneRequestPerText(c) ==
  /\ epc[c] = "returned"
  /\ Len(result[c]) = Len(texts[c])
  /\ embeddingPromises[c] = [k \in 1..Len(texts[c]) |-> k]
  /\ \A k \in DOMAIN promise[c] :
       promise[c][k].st = "fulfilled" /\ promise[c][k].prompt = texts[c][k]
  /\ idx[c] = concurrencyLimit * BatchCount(Len(texts[c]))

\* C22: unless one of its requests fails, a generateEmbeddings call
\* eventually returns, having issued exactly one request per text in
\* ceil(n/5) batches.
C22_ReturnsAfterAllBatches ==
  <>( \/ ReturnedAfterOneRequestPerText(1)
      \/ \E k \in DOMAIN promise[1] : promise[1][k].st = "rejected" )

C22_Witness ==
  /\ ReturnedAfterOneRequestPerText(1)
  /\ Len(texts[1]) > 2 * concurrencyLimit
  /\ Len(texts[1]) % concurrencyLimit # 0
  /\ outOfOrder[1]

\* C23, as stated: a call that has returned or failed has no request in
\* flight.
C23_NoneInFlightOnCompletion ==
  \A c \in Ops :
    epc[c] \in {"returned", "failed"} => InFlight(c) = {}

\* C23, amended: a call that has returned has no request in flight; a call
\* that has failed has requests in flight only in the batch in which a
\* request failed, and has issued none of a later batch.
C23_InFlightOnlyInFailedBatch ==
  \A c \in Ops :
    /\ epc[c] = "returned" => InFlight(c) = {}
    /\ epc[c] = "failed" =>
         /\ \E k \in CurrentBatch(c) : promise[c][k].st = "rejected"
         /\ InFlight(c) \subseteq CurrentBatch(c)
         /\ \A k \in DOMAIN promise[c] :
              BatchOf(k) > idx[c] \div concurrencyLimit => promise[c][k].st = "unissued"

C23_Witness ==
  \E c \in Ops :
    /\ epc[c] = "failed"
    /\ idx[c] >= concurrencyLimit
    /\ Cardinality(InFlight(c)) >= 2
    /\ Len(texts[c]) > idx[c] + concurrencyLimit

====
